---- MODULE Spec2Model ----
(***************************************************************************)
(* Service-worker cache router of the site (src/unnamed/part_008): the     *)
(* install / activate lifecycle, the fetch listener with its four          *)
(* strategies, fromNetwork's race with the timer, and trimCache.           *)
(*                                                                         *)
(* The platform the worker runs on is modelled by what the Service Worker  *)
(* and Cache Storage interfaces do at the call sites of the source:        *)
(*   - a partition (Cache) is an ordered list of entries, at most one per  *)
(*     request URL; put removes the entry of the same URL and appends the  *)
(*     new one; keys() lists the URLs in that order;                       *)
(*   - caches.match searches the partitions in the order of their creation *)
(*     and answers with the first hit;                                     *)
(*   - every await / then is a separate step, so the steps of requests in  *)
(*     flight interleave;                                                  *)
(*   - a Response handed to respondWith has its body locked, and clone()   *)
(*     of a locked response throws.                                        *)
(* A response is [url, ver]: ver 0 is the copy fetched at install, ver n   *)
(* the n-th response the network produced for that URL afterwards.         *)
(***************************************************************************)
EXTENDS Integers, Sequences, FiniteSets, TLC

\* ------------------------------------------------------------ constants
VERSION == "v1"
CORE_CACHE == "core-" \o VERSION
RUNTIME_CACHE == "runtime-" \o VERSION
MAX_RUNTIME_ENTRIES == 120

CORE_ASSETS ==
  << "/", "/index.html", "/about.html", "/services.html", "/gallery.html",
     "/contact.html", "/css/style.css", "/css/responsive.css", "/js/main.js",
     "/js/resource-prioritizer.js", "/js/image-optimizer.js",
     "/js/boost-performance.js", "/images/Updated.png", "/videos/test.mp4" >>

\* --------------------------------------------------------------- bounds
\* Fetch events the host dispatches to the worker in a run.
MaxEvents == 2
\* Entries an earlier browsing session left in the runtime partition: it is full.
Prefill == 120

\* ------------------------------------------------------------ responses
NoResponse == [url |-> "", ver |-> -1]

Range(s) == { s[i] : i \in 1..Len(s) }

\* the entries of s whose url is not u, in order
SelectSeqBy(s, u) == SelectSeq(s, LAMBDA e : e.url # u)

\* cache.match(req) on one partition: the entry of that URL, or undefined
CacheMatch(entries, u) ==
  IF \E i \in 1..Len(entries) : entries[i].url = u
  THEN entries[CHOOSE i \in 1..Len(entries) :
                 /\ entries[i].url = u
                 /\ \A j \in 1..(i-1) : entries[j].url # u]
  ELSE NoResponse

\* mutant of CachePut: an entry already stored for the URL is kept (first write wins)
CachePutKeepsOld(entries, res) ==
  IF \E i \in 1..Len(entries) : entries[i].url = res.url THEN entries
  ELSE Append(entries, res)

\* mutant of CachePut: the new entry is appended beside the one of the same URL
CachePutAppends(entries, res) == Append(entries, res)

\* cache.put(req, res): the entry of the same URL is removed, the new one appended
CachePut(entries, res) == Append(SelectSeqBy(entries, res.url), res)

\* cache.keys(): the request URLs in the partition's order
CacheKeys(entries) == [i \in 1..Len(entries) |-> entries[i].url]

\* Promise.all(toDelete.map((req) => cache.delete(req))): every entry whose URL
\* is among toDelete goes
DeleteAll(entries, toDelete) ==
  SelectSeq(entries, LAMBDA e : e.url \notin Range(toDelete))

\* mutant of TrimTargets: keys.slice(maxEntries), the keys beyond the first maxEntries
TrimTargetsNewest(keys, maxEntries) ==
  IF Len(keys) > maxEntries THEN SubSeq(keys, maxEntries + 1, Len(keys))
  ELSE << >>

\* keys.slice(0, keys.length - maxEntries) when keys.length > maxEntries
TrimTargets(keys, maxEntries) ==
  IF Len(keys) > maxEntries THEN SubSeq(keys, 1, Len(keys) - maxEntries)
  ELSE << >>

\* caches.match(req): the partitions in the order of their creation, first hit
RECURSIVE CachesMatch(_, _, _)
CachesMatch(names, st, u) ==
  IF names = << >> THEN NoResponse
  ELSE IF CacheMatch(st[Head(names)], u) # NoResponse
       THEN CacheMatch(st[Head(names)], u)
       ELSE CachesMatch(Tail(names), st, u)

\* caches.open(name): the partition is created, last in order, when absent
CachesOpen(names, name) ==
  IF name \in Range(names) THEN names ELSE Append(names, name)

\* ------------------------------------------------------------- requests
PriorCaches == << "core-v0", "runtime-v0" >>
CacheNames == { CORE_CACHE, RUNTIME_CACHE } \cup Range(PriorCaches)

Origin == "https://site"
NoRequest == [url |-> "", dest |-> "", mode |-> "", method |-> "", origin |-> ""]

Get(u, d, m) == [url |-> u, dest |-> d, mode |-> m, method |-> "GET", origin |-> Origin]

\* The requests the pages of the site make (the inputs of the fetch listener).
Requests ==
  { Get("/index.html", "document", "navigate"),
    Get("/quote.html", "document", "navigate"),
    Get("/css/style.css", "style", "no-cors"),
    Get("/js/lightbox.js", "script", "no-cors"),
    Get("/images/Updated.png", "image", "no-cors"),
    Get("/fonts/brand.woff2", "font", "cors"),
    Get("/quote.html", "", "no-cors"),
    [url |-> "/contact.html", dest |-> "document", mode |-> "navigate",
     method |-> "POST", origin |-> Origin],
    [url |-> "/css2", dest |-> "style", mode |-> "no-cors",
     method |-> "GET", origin |-> "https://fonts.example"] }

Urls == { q.url : q \in Requests }

\* mutant of Intercepted: the method is not looked at
InterceptedAnyMethod(q) == q.origin = Origin

\* lines 97 and 102: only same-origin GET requests are handled
Intercepted(q) == q.method = "GET" /\ q.origin = Origin

\* mutant of Strategy: the image/font test names the image destination only
StrategyImageOnly(q) ==
  IF q.mode = "navigate" \/ q.dest = "document" THEN "document"
  ELSE IF q.dest \in {"style", "script"} THEN "swr"
  ELSE IF q.dest \in {"image"} THEN "img"
  ELSE "default"

\* lines 105, 131, 150, 177: the strategy a handled request is dispatched to
Strategy(q) ==
  IF q.mode = "navigate" \/ q.dest = "document" THEN "document"
  ELSE IF q.dest \in {"style", "script"} THEN "swr"
  ELSE IF q.dest \in {"image", "font"} THEN "img"
  ELSE "default"

Slots == {1, 2}

Idle ==
  [pc |-> "idle", q |-> NoRequest, cached |-> NoResponse, res |-> NoResponse,
   served |-> NoResponse, outcome |-> "none", net |-> "none", timer |-> "off",
   bg |-> "none", toDelete |-> << >>, fetches |-> 0, locked |-> FALSE,
   responds |-> 0]

VARIABLES
  phase,        \* lifecycle of the worker
  skipWaiting,  \* self.skipWaiting() has been called
  preload,      \* navigation preload is enabled
  claimed,      \* clients.claim() has been called
  cacheNames,   \* the partitions of the cache store, in the order of creation
  store,        \* the entries of each partition
  latest,       \* per URL, the version of the network's latest response
  lastPut,      \* per URL, the version the last completed runtime put stored
  events,       \* fetch events dispatched so far
  req           \* per slot, the fetch event being handled

vars == << phase, skipWaiting, preload, claimed, cacheNames, store, latest, lastPut, events, req >>

Runtime == store[RUNTIME_CACHE]
Core == store[CORE_CACHE]

\* the core assets as fetched at install
Seeded == [i \in 1..Len(CORE_ASSETS) |-> [url |-> CORE_ASSETS[i], ver |-> 0]]

NoEntries == [n \in CacheNames |-> << >>]

\* what an earlier browsing session left in the runtime partition, oldest first: a
\* font the pages still request, then the pictures of the gallery
Warm ==
  [i \in 1..Prefill |->
     IF i = 1 THEN [url |-> "/fonts/brand.woff2", ver |-> 1]
     ELSE [url |-> "/gallery/" \o ToString(i) \o ".jpg", ver |-> 1]]

\* the version of the response a partition holds for URL u, 0 when it holds none
StoredVer(entries, u) ==
  IF CacheMatch(entries, u) # NoResponse THEN CacheMatch(entries, u).ver ELSE 0

\* The worker script has been parsed and the install event is about to be
\* dispatched. The cache store of the origin outlives the worker: it is empty, or
\* holds a prior generation's partitions, or holds this generation's partitions as
\* an earlier registration of the same script filled them.
Init ==
  /\ phase = "parsed"
  /\ skipWaiting = FALSE
  /\ preload = FALSE
  /\ claimed = FALSE
  /\ \/ /\ cacheNames = << >>
        /\ store = NoEntries
     \/ /\ cacheNames = PriorCaches
        /\ store = [n \in CacheNames |->
                      IF n \in Range(PriorCaches)
                      THEN << [url |-> "/index.html", ver |-> 0] >> ELSE << >>]
     \/ /\ cacheNames = << CORE_CACHE, RUNTIME_CACHE >>
        /\ store = [n \in CacheNames |->
                      IF n = CORE_CACHE THEN Seeded
                      ELSE IF n = RUNTIME_CACHE THEN Warm ELSE << >>]
  /\ latest = [u \in Urls |-> StoredVer(store[RUNTIME_CACHE], u)]
  /\ lastPut = [u \in Urls |-> StoredVer(store[RUNTIME_CACHE], u)]
  /\ events = 0
  /\ req = [r \in Slots |-> Idle]

\* ------------------------------------------------------------ lifecycle
\* install listener, line 49: caches.open(CORE_CACHE)
InstallOpen ==
  /\ phase = "parsed"
  /\ phase' = "installing"
  /\ cacheNames' = CachesOpen(cacheNames, CORE_CACHE)
  /\ UNCHANGED << skipWaiting, preload, claimed, store, latest, lastPut, events, req >>

RECURSIVE PutAll(_, _)
PutAll(entries, rs) ==
  IF rs = << >> THEN entries ELSE PutAll(CachePut(entries, Head(rs)), Tail(rs))

\* line 50: cache.addAll(CORE_ASSETS), every asset fetched
InstallAddAll ==
  /\ phase = "installing"
  /\ phase' = "seeded"
  /\ store' = [store EXCEPT ![CORE_CACHE] = PutAll(@, Seeded)]
  /\ UNCHANGED << skipWaiting, preload, claimed, cacheNames, latest, lastPut, events, req >>

\* mutant of InstallFail: the assets are added one by one, those fetched before the
\* failing one stay in the partition
InstallFailKeepsFetched ==
  /\ phase = "installing"
  /\ phase' = "redundant"
  /\ store' = [store EXCEPT ![CORE_CACHE] = PutAll(<< >>, SubSeq(Seeded, 1, 1))]
  /\ UNCHANGED << skipWaiting, preload, claimed, cacheNames, latest, lastPut, events, req >>

\* mutant of InstallFail: the rejection of addAll is caught ahead of skipWaiting
InstallFailSkipsWaiting ==
  /\ phase = "installing"
  /\ phase' = "installed"
  /\ skipWaiting' = TRUE
  /\ UNCHANGED << preload, claimed, cacheNames, store, latest, lastPut, events, req >>

\* line 50: the fetch of some asset fails, addAll rejects and stores nothing;
\* waitUntil's promise rejects and the install fails
InstallFail ==
  /\ phase = "installing"
  /\ phase' = "redundant"
  /\ UNCHANGED << skipWaiting, preload, claimed, cacheNames, store, latest, lastPut, events, req >>

\* line 51: self.skipWaiting()
InstallSkipWaiting ==
  /\ phase = "seeded"
  /\ phase' = "installed"
  /\ skipWaiting' = TRUE
  /\ UNCHANGED << preload, claimed, cacheNames, store, latest, lastPut, events, req >>

\* mutant of ActivatePreload: enable() is awaited outside a try block, a throw
\* rejects waitUntil's promise
ActivatePreloadFatal ==
  /\ phase = "installed"
  /\ skipWaiting
  /\ \E supported \in BOOLEAN, throws \in BOOLEAN :
       /\ preload' = (supported /\ ~throws)
       /\ phase' = IF supported /\ throws THEN "redundant" ELSE "activating"
  /\ UNCHANGED << skipWaiting, claimed, cacheNames, store, latest, lastPut, events, req >>

\* activate listener, lines 58-62: navigationPreload.enable() when supported;
\* a throw is swallowed
ActivatePreload ==
  /\ phase = "installed"
  /\ skipWaiting
  /\ phase' = "activating"
  /\ \E supported \in BOOLEAN, throws \in BOOLEAN :
       preload' = (supported /\ ~throws)
  /\ UNCHANGED << skipWaiting, claimed, cacheNames, store, latest, lastPut, events, req >>

\* mutant of ActivatePurge: the filter keeps CORE_CACHE only
ActivatePurgeKeepsCoreOnly ==
  /\ phase = "activating"
  /\ phase' = "purged"
  /\ cacheNames' = SelectSeq(cacheNames, LAMBDA k : k \in {CORE_CACHE})
  /\ store' = [n \in CacheNames |-> IF n \in {CORE_CACHE} THEN store[n] ELSE << >>]
  /\ UNCHANGED << skipWaiting, preload, claimed, latest, lastPut, events, req >>

\* lines 64-69: every partition that is not CORE_CACHE or RUNTIME_CACHE is deleted
ActivatePurge ==
  /\ phase = "activating"
  /\ phase' = "purged"
  /\ cacheNames' = SelectSeq(cacheNames, LAMBDA k : k \in {CORE_CACHE, RUNTIME_CACHE})
  /\ store' = [n \in CacheNames |->
                 IF n \in {CORE_CACHE, RUNTIME_CACHE} THEN store[n] ELSE << >>]
  /\ UNCHANGED << skipWaiting, preload, claimed, latest, lastPut, events, req >>

\* line 70: self.clients.claim()
ActivateClaim ==
  /\ phase = "purged"
  /\ phase' = "activated"
  /\ claimed' = TRUE
  /\ UNCHANGED << skipWaiting, preload, cacheNames, store, latest, lastPut, events, req >>

Lifecycle ==
  \/ InstallOpen
  \/ InstallAddAll
  \/ InstallFail
  \/ InstallSkipWaiting
  \/ ActivatePreload
  \/ ActivatePurge
  \/ ActivateClaim

\* ------------------------------------------------------- fetch listener
Set(r, rec) == req' = [req EXCEPT ![r] = rec]

\* the response the network produces next for URL u
NetResponse(u) == [url |-> u, ver |-> latest[u] + 1]

\* the network answers with a response: the next version of URL u
Produce(u) == latest' = [latest EXCEPT ![u] = @ + 1]

IsDoc(r) == Intercepted(req[r].q) /\ Strategy(req[r].q) = "document"
IsSwr(r) == Intercepted(req[r].q) /\ Strategy(req[r].q) = "swr"
IsImg(r) == Intercepted(req[r].q) /\ Strategy(req[r].q) = "img"
IsDefault(r) == Intercepted(req[r].q) /\ Strategy(req[r].q) = "default"

\* lines 95-178: a fetch event arrives; the listener returns without respondWith
\* (lines 97, 102) or calls respondWith once with the promise of its strategy
FetchEvent(r, q) ==
  /\ phase = "activated"
  /\ req[r].pc = "idle"
  /\ \A s \in Slots : s < r => req[s].pc # "idle"
  /\ events < MaxEvents
  /\ Set(r, [Idle EXCEPT
        !.q = q,
        !.pc = IF ~Intercepted(q) THEN "pass"
               ELSE IF Strategy(q) = "document" THEN "preload" ELSE "match",
        !.responds = IF Intercepted(q) THEN 1 ELSE 0])
  /\ events' = events + 1
  /\ UNCHANGED << phase, skipWaiting, preload, claimed, cacheNames, store, latest, lastPut >>

\* line 109: event.preloadResponse resolves with undefined (preload not enabled, or
\* not a navigation); line 117: fromNetwork starts the timer and the fetch
PreloadNone(r) ==
  /\ req[r].pc = "preload"
  /\ ~(preload /\ req[r].q.mode = "navigate")
  /\ Set(r, [req[r] EXCEPT !.pc = "net", !.net = "inflight", !.timer = "armed",
                           !.fetches = @ + 1])
  /\ UNCHANGED << phase, skipWaiting, preload, claimed, cacheNames, store, latest, lastPut, events >>

\* mutant of PreloadResponse: the preload response is returned and no copy is put
PreloadResponseNoPut(r) ==
  /\ req[r].pc = "preload"
  /\ preload /\ req[r].q.mode = "navigate"
  /\ Produce(req[r].q.url)
  /\ Set(r, [req[r] EXCEPT !.pc = "done", !.res = NetResponse(req[r].q.url),
                           !.served = NetResponse(req[r].q.url),
                           !.outcome = "ok"])
  /\ UNCHANGED << phase, skipWaiting, preload, claimed, cacheNames, store, lastPut, events >>

\* lines 109-114: the preload response is cloned, its put is left to run, and it is
\* returned
PreloadResponse(r) ==
  /\ req[r].pc = "preload"
  /\ preload /\ req[r].q.mode = "navigate"
  /\ Produce(req[r].q.url)
  /\ Set(r, [req[r] EXCEPT !.pc = "done", !.res = NetResponse(req[r].q.url),
                           !.served = NetResponse(req[r].q.url),
                           !.outcome = "ok", !.bg = "put"])
  /\ UNCHANGED << phase, skipWaiting, preload, claimed, cacheNames, store, lastPut, events >>

\* line 109: event.preloadResponse rejects (the preload request failed); the await
\* is outside the try block, so the promise given to respondWith rejects
PreloadReject(r) ==
  /\ req[r].pc = "preload"
  /\ preload /\ req[r].q.mode = "navigate"
  /\ Set(r, [req[r] EXCEPT !.pc = "done", !.outcome = "failed"])
  /\ UNCHANGED << phase, skipWaiting, preload, claimed, cacheNames, store, latest, lastPut, events >>

\* mutant of DocFetchResolve: the response is returned and no copy is put
DocFetchResolveNoPut(r) ==
  /\ req[r].pc = "net"
  /\ req[r].net = "inflight"
  /\ Produce(req[r].q.url)
  /\ Set(r, [req[r] EXCEPT !.pc = "done", !.net = "resolved", !.timer = "cleared",
                           !.res = NetResponse(req[r].q.url),
                           !.served = NetResponse(req[r].q.url),
                           !.outcome = "ok"])
  /\ UNCHANGED << phase, skipWaiting, preload, claimed, cacheNames, store, lastPut, events >>

\* fromNetwork lines 88-90, then lines 118-120: the fetch resolves before the timer
DocFetchResolve(r) ==
  /\ req[r].pc = "net"
  /\ req[r].net = "inflight"
  /\ Produce(req[r].q.url)
  /\ Set(r, [req[r] EXCEPT !.pc = "done", !.net = "resolved", !.timer = "cleared",
                           !.res = NetResponse(req[r].q.url),
                           !.served = NetResponse(req[r].q.url),
                           !.outcome = "ok", !.bg = "put"])
  /\ UNCHANGED << phase, skipWaiting, preload, claimed, cacheNames, store, lastPut, events >>

\* fromNetwork line 91: the fetch rejects; the timer is not cleared
DocFetchReject(r) ==
  /\ req[r].pc = "net"
  /\ req[r].net = "inflight"
  /\ Set(r, [req[r] EXCEPT !.pc = "match", !.net = "rejected"])
  /\ UNCHANGED << phase, skipWaiting, preload, claimed, cacheNames, store, latest, lastPut, events >>

\* fromNetwork line 77: the timer fires; reject has an effect only on a pending promise
TimerFire(r) ==
  /\ req[r].timer = "armed"
  /\ Set(r, [req[r] EXCEPT !.timer = "fired",
                           !.pc = IF @ = "net" THEN "match" ELSE @])
  /\ UNCHANGED << phase, skipWaiting, preload, claimed, cacheNames, store, latest, lastPut, events >>

\* mutant of DocLateResolve: the copy is put where the response arrives, in the
\* callback of fetch, not behind the await of fromNetwork
DocLateResolveStores(r) ==
  /\ IsDoc(r)
  /\ req[r].net = "inflight"
  /\ req[r].timer = "fired"
  /\ Produce(req[r].q.url)
  /\ Set(r, [req[r] EXCEPT !.net = "resolved", !.res = NetResponse(req[r].q.url),
                           !.bg = "put"])
  /\ UNCHANGED << phase, skipWaiting, preload, claimed, cacheNames, store, lastPut, events >>

\* fromNetwork lines 88-90 after the timer fired: the fetch is not cancelled; its
\* response arrives and resolve has no effect
DocLateResolve(r) ==
  /\ IsDoc(r)
  /\ req[r].net = "inflight"
  /\ req[r].timer = "fired"
  /\ Produce(req[r].q.url)
  /\ Set(r, [req[r] EXCEPT !.net = "resolved", !.res = NetResponse(req[r].q.url)])
  /\ UNCHANGED << phase, skipWaiting, preload, claimed, cacheNames, store, lastPut, events >>

\* fromNetwork line 91 after the timer fired
DocLateReject(r) ==
  /\ IsDoc(r)
  /\ req[r].net = "inflight"
  /\ req[r].timer = "fired"
  /\ Set(r, [req[r] EXCEPT !.net = "rejected"])
  /\ UNCHANGED << phase, skipWaiting, preload, claimed, cacheNames, store, latest, lastPut, events >>

\* mutant of DocMatch: the fallback goes to the root entry point without looking the
\* request up
DocMatchSkips(r) ==
  /\ IsDoc(r)
  /\ req[r].pc = "match"
  /\ Set(r, [req[r] EXCEPT !.pc = "index"])
  /\ UNCHANGED << phase, skipWaiting, preload, claimed, cacheNames, store, latest, lastPut, events >>

\* lines 122-123: caches.match(req); a hit is returned
DocMatch(r) ==
  /\ IsDoc(r)
  /\ req[r].pc = "match"
  /\ LET c == CachesMatch(cacheNames, store, req[r].q.url) IN
       Set(r, IF c # NoResponse
              THEN [req[r] EXCEPT !.pc = "done", !.cached = c, !.served = c,
                                  !.outcome = "ok"]
              ELSE [req[r] EXCEPT !.pc = "index"])
  /\ UNCHANGED << phase, skipWaiting, preload, claimed, cacheNames, store, latest, lastPut, events >>

\* line 123: caches.match("/index.html"); undefined given to respondWith is a
\* network error
DocIndex(r) ==
  /\ req[r].pc = "index"
  /\ LET c == CachesMatch(cacheNames, store, "/index.html") IN
       Set(r, IF c # NoResponse
              THEN [req[r] EXCEPT !.pc = "done", !.served = c, !.outcome = "ok"]
              ELSE [req[r] EXCEPT !.pc = "done", !.outcome = "failed"])
  /\ UNCHANGED << phase, skipWaiting, preload, claimed, cacheNames, store, latest, lastPut, events >>

\* mutant of SwrMatch: the response path awaits the fetch although a match exists
SwrMatchAwaits(r) ==
  /\ IsSwr(r)
  /\ req[r].pc = "match"
  /\ Set(r, [req[r] EXCEPT !.pc = "await", !.net = "inflight", !.fetches = @ + 1,
                           !.cached = CachesMatch(cacheNames, store, req[r].q.url)])
  /\ UNCHANGED << phase, skipWaiting, preload, claimed, cacheNames, store, latest, lastPut, events >>

\* lines 133-143: caches.match(req) resolves; the fetch is issued in either case;
\* `cached || fetchPromise` resolves respondWith's promise with a hit at once
SwrMatch(r) ==
  /\ IsSwr(r)
  /\ req[r].pc = "match"
  /\ LET c == CachesMatch(cacheNames, store, req[r].q.url) IN
       Set(r, IF c # NoResponse
              THEN [req[r] EXCEPT !.pc = "done", !.cached = c, !.served = c,
                                  !.outcome = "ok", !.net = "inflight",
                                  !.fetches = @ + 1]
              ELSE [req[r] EXCEPT !.pc = "await", !.net = "inflight",
                                  !.fetches = @ + 1])
  /\ UNCHANGED << phase, skipWaiting, preload, claimed, cacheNames, store, latest, lastPut, events >>

\* lines 135-141: the fetch resolves; caches.open is called and networkRes returned
SwrFetchResolve(r) ==
  /\ IsSwr(r)
  /\ req[r].net = "inflight"
  /\ Produce(req[r].q.url)
  /\ Set(r, [req[r] EXCEPT !.net = "resolved", !.res = NetResponse(req[r].q.url),
                           !.bg = "put",
                           !.pc = IF @ = "await" THEN "deliver" ELSE @])
  /\ UNCHANGED << phase, skipWaiting, preload, claimed, cacheNames, store, lastPut, events >>

\* mutant of SwrFetchReject: the rejection is not caught, the request fails even
\* with a cached match
SwrFetchRejectUncaught(r) ==
  /\ IsSwr(r)
  /\ req[r].net = "inflight"
  /\ Set(r, [req[r] EXCEPT !.net = "rejected", !.pc = "done", !.outcome = "failed"])
  /\ UNCHANGED << phase, skipWaiting, preload, claimed, cacheNames, store, latest, lastPut, events >>

\* line 142: .catch(() => cached); without a hit respondWith gets undefined
SwrFetchReject(r) ==
  /\ IsSwr(r)
  /\ req[r].net = "inflight"
  /\ Set(r, IF req[r].pc = "await"
            THEN [req[r] EXCEPT !.net = "rejected", !.pc = "done", !.outcome = "failed"]
            ELSE [req[r] EXCEPT !.net = "rejected"])
  /\ UNCHANGED << phase, skipWaiting, preload, claimed, cacheNames, store, latest, lastPut, events >>

\* mutant of Deliver: the put is awaited before networkRes is returned
DeliverAfterPut(r) ==
  /\ req[r].pc = "deliver"
  /\ req[r].bg \in {"keys", "delete", "done"}
  /\ Set(r, [req[r] EXCEPT !.pc = "done", !.served = req[r].res, !.outcome = "ok",
                           !.locked = TRUE])
  /\ UNCHANGED << phase, skipWaiting, preload, claimed, cacheNames, store, latest, lastPut, events >>

\* lines 140-143 and 169: respondWith's promise fulfils with networkRes, whose body
\* the page then reads (the response is locked)
Deliver(r) ==
  /\ req[r].pc = "deliver"
  /\ Set(r, [req[r] EXCEPT !.pc = "done", !.served = req[r].res, !.outcome = "ok",
                           !.locked = TRUE])
  /\ UNCHANGED << phase, skipWaiting, preload, claimed, cacheNames, store, latest, lastPut, events >>

\* mutant of ImgMatch: a hit is re-fetched and the response path awaits the fetch
ImgMatchAwaits(r) ==
  /\ IsImg(r)
  /\ req[r].pc = "match"
  /\ Set(r, [req[r] EXCEPT !.pc = "await", !.net = "inflight", !.fetches = @ + 1,
                           !.cached = CachesMatch(cacheNames, store, req[r].q.url)])
  /\ UNCHANGED << phase, skipWaiting, preload, claimed, cacheNames, store, latest, lastPut, events >>

\* lines 152-164: caches.match(req) resolves; a hit is returned and re-fetched in the
\* background, a miss is fetched
ImgMatch(r) ==
  /\ IsImg(r)
  /\ req[r].pc = "match"
  /\ LET c == CachesMatch(cacheNames, store, req[r].q.url) IN
       Set(r, IF c # NoResponse
              THEN [req[r] EXCEPT !.pc = "done", !.cached = c, !.served = c,
                                  !.outcome = "ok", !.net = "inflight",
                                  !.fetches = @ + 1]
              ELSE [req[r] EXCEPT !.pc = "await", !.net = "inflight",
                                  !.fetches = @ + 1])
  /\ UNCHANGED << phase, skipWaiting, preload, claimed, cacheNames, store, latest, lastPut, events >>

\* lines 156-160 (hit) and 164-169 (miss): the fetch resolves and caches.open is called
ImgFetchResolve(r) ==
  /\ IsImg(r)
  /\ req[r].net = "inflight"
  /\ Produce(req[r].q.url)
  /\ Set(r, [req[r] EXCEPT !.net = "resolved", !.res = NetResponse(req[r].q.url),
                           !.bg = "put",
                           !.pc = IF @ = "await" THEN "deliver" ELSE @])
  /\ UNCHANGED << phase, skipWaiting, preload, claimed, cacheNames, store, lastPut, events >>

\* line 161 (hit): the rejection is swallowed; line 164 (miss): the promise given to
\* respondWith rejects
ImgFetchReject(r) ==
  /\ IsImg(r)
  /\ req[r].net = "inflight"
  /\ Set(r, IF req[r].pc = "await"
            THEN [req[r] EXCEPT !.net = "rejected", !.pc = "done", !.outcome = "failed"]
            ELSE [req[r] EXCEPT !.net = "rejected"])
  /\ UNCHANGED << phase, skipWaiting, preload, claimed, cacheNames, store, latest, lastPut, events >>

\* line 177: caches.match(req).then((cached) => cached || fetch(req))
DefaultMatch(r) ==
  /\ IsDefault(r)
  /\ req[r].pc = "match"
  /\ LET c == CachesMatch(cacheNames, store, req[r].q.url) IN
       Set(r, IF c # NoResponse
              THEN [req[r] EXCEPT !.pc = "done", !.cached = c, !.served = c,
                                  !.outcome = "ok"]
              ELSE [req[r] EXCEPT !.pc = "await", !.net = "inflight",
                                  !.fetches = @ + 1])
  /\ UNCHANGED << phase, skipWaiting, preload, claimed, cacheNames, store, latest, lastPut, events >>

\* mutant of DefaultFetchResolve: the response of a miss is also put into the runtime
\* partition, as the other strategies do
DefaultFetchResolveStores(r) ==
  /\ IsDefault(r)
  /\ req[r].net = "inflight"
  /\ Produce(req[r].q.url)
  /\ Set(r, [req[r] EXCEPT !.net = "resolved", !.res = NetResponse(req[r].q.url),
                           !.served = NetResponse(req[r].q.url),
                           !.pc = "done", !.outcome = "ok", !.bg = "put"])
  /\ UNCHANGED << phase, skipWaiting, preload, claimed, cacheNames, store, lastPut, events >>

\* line 177: the fetch of a miss resolves
DefaultFetchResolve(r) ==
  /\ IsDefault(r)
  /\ req[r].net = "inflight"
  /\ Produce(req[r].q.url)
  /\ Set(r, [req[r] EXCEPT !.net = "resolved", !.res = NetResponse(req[r].q.url),
                           !.served = NetResponse(req[r].q.url),
                           !.pc = "done", !.outcome = "ok", !.locked = TRUE])
  /\ UNCHANGED << phase, skipWaiting, preload, claimed, cacheNames, store, lastPut, events >>

\* line 177: the fetch of a miss rejects
DefaultFetchReject(r) ==
  /\ IsDefault(r)
  /\ req[r].net = "inflight"
  /\ Set(r, [req[r] EXCEPT !.net = "rejected", !.pc = "done", !.outcome = "failed"])
  /\ UNCHANGED << phase, skipWaiting, preload, claimed, cacheNames, store, latest, lastPut, events >>

\* a trim pass follows the put: lines 139 and 168; not lines 112, 119 and 159
TrimFollows(r) == IsSwr(r) \/ (IsImg(r) /\ req[r].cached = NoResponse)

\* the response is cloned when caches.open has resolved (lines 138, 159, 167); the
\* document branch cloned it before returning (lines 111, 118)
CloneThrows(r) == ~IsDoc(r) /\ req[r].locked

\* mutant of BgPut: the copy is put into the partition opened under CORE_CACHE
BgPutIntoCore(r) ==
  /\ req[r].bg = "put"
  /\ ~CloneThrows(r)
  /\ cacheNames' = CachesOpen(cacheNames, CORE_CACHE)
  /\ store' = [store EXCEPT ![CORE_CACHE] = CachePut(@, req[r].res)]
  /\ lastPut' = [lastPut EXCEPT ![req[r].q.url] = req[r].res.ver]
  /\ Set(r, [req[r] EXCEPT !.bg = IF TrimFollows(r) THEN "keys" ELSE "done"])
  /\ UNCHANGED << phase, skipWaiting, preload, claimed, latest, events >>

\* lines 112, 119, 136-138, 157-159, 165-167: caches.open(RUNTIME_CACHE) resolves and
\* the copy is put under the request
BgPut(r) ==
  /\ req[r].bg = "put"
  /\ ~CloneThrows(r)
  /\ cacheNames' = CachesOpen(cacheNames, RUNTIME_CACHE)
  /\ store' = [store EXCEPT ![RUNTIME_CACHE] = CachePut(@, req[r].res)]
  /\ lastPut' = [lastPut EXCEPT ![req[r].q.url] = req[r].res.ver]
  /\ Set(r, [req[r] EXCEPT !.bg = IF TrimFollows(r) THEN "keys" ELSE "done"])
  /\ UNCHANGED << phase, skipWaiting, preload, claimed, latest, events >>

\* lines 138, 167: networkRes.clone() throws on the response already handed to the
\* page; the chain rejects, nothing is put and trimCache is not called
BgCloneThrows(r) ==
  /\ req[r].bg = "put"
  /\ CloneThrows(r)
  /\ cacheNames' = CachesOpen(cacheNames, RUNTIME_CACHE)
  /\ Set(r, [req[r] EXCEPT !.bg = "failed"])
  /\ UNCHANGED << phase, skipWaiting, preload, claimed, store, latest, lastPut, events >>

\* trimCache lines 16-20: the keys are read and the oldest picked
TrimKeys(r) ==
  /\ req[r].bg = "keys"
  /\ LET toDelete == TrimTargets(CacheKeys(Runtime), MAX_RUNTIME_ENTRIES) IN
       Set(r, [req[r] EXCEPT !.toDelete = toDelete,
                             !.bg = IF toDelete = << >> THEN "done" ELSE "delete"])
  /\ UNCHANGED << phase, skipWaiting, preload, claimed, cacheNames, store, latest, lastPut, events >>

\* trimCache line 21: the picked keys are deleted
TrimDelete(r) ==
  /\ req[r].bg = "delete"
  /\ store' = [store EXCEPT ![RUNTIME_CACHE] = DeleteAll(@, req[r].toDelete)]
  /\ Set(r, [req[r] EXCEPT !.toDelete = << >>, !.bg = "done"])
  /\ UNCHANGED << phase, skipWaiting, preload, claimed, cacheNames, latest, lastPut, events >>

\* nothing of the event is left to run
Settled(r) ==
  /\ req[r].pc \in {"done", "pass"}
  /\ req[r].bg \in {"none", "done", "failed"}
  /\ req[r].net # "inflight"
  /\ req[r].timer # "armed"

\* the event is over; the slot takes the next one
Finish(r) ==
  /\ Settled(r)
  /\ Set(r, Idle)
  /\ UNCHANGED << phase, skipWaiting, preload, claimed, cacheNames, store, latest, lastPut, events >>

Serve ==
  \E r \in Slots :
    \/ \E q \in Requests : FetchEvent(r, q)
    \/ PreloadNone(r)
    \/ PreloadResponse(r)
    \/ PreloadReject(r)
    \/ DocFetchResolve(r)
    \/ DocFetchReject(r)
    \/ TimerFire(r)
    \/ DocLateResolve(r)
    \/ DocLateReject(r)
    \/ DocMatch(r)
    \/ DocIndex(r)
    \/ SwrMatch(r)
    \/ SwrFetchResolve(r)
    \/ SwrFetchReject(r)
    \/ Deliver(r)
    \/ ImgMatch(r)
    \/ ImgFetchResolve(r)
    \/ ImgFetchReject(r)
    \/ DefaultMatch(r)
    \/ DefaultFetchResolve(r)
    \/ DefaultFetchReject(r)
    \/ BgPut(r)
    \/ BgCloneThrows(r)
    \/ TrimKeys(r)
    \/ TrimDelete(r)
    \/ Finish(r)

Next == Lifecycle \/ Serve

Spec == Init /\ [][Next]_vars

\* The cache store answers: a put left to run is carried out. The network may never
\* answer, and the host need not dispatch further events.
FairSpec == Spec /\ \A r \in Slots : WF_vars(BgPut(r))

\* ---------------------------------------------------------------- claims
\* some partition of the cache store holds an entry for URL u
HasEntry(u) ==
  \E n \in Range(cacheNames) : \E i \in 1..Len(store[n]) : store[n][i].url = u

\* the entries the cache store holds for URL u
EntriesOf(u) ==
  { e \in UNION { Range(store[n]) : n \in Range(cacheNames) } : e.url = u }

\* C1: in every reachable state the runtime partition holds at most
\* MAX_RUNTIME_ENTRIES keys.
C1_RuntimeBounded == Len(Runtime) <= MAX_RUNTIME_ENTRIES

\* C5: a document request fails only when the cache store holds neither a match for
\* the request nor the root entry point.
C5_DocFailsOnlyWithoutFallback ==
  \A r \in Slots :
    (IsDoc(r) /\ req[r].outcome = "failed")
      => (~HasEntry(req[r].q.url) /\ ~HasEntry("/index.html"))

\* C9: every style/script request issues exactly one fetch; without a cached match
\* the response served is that fetch's response; a response the fetch brought is
\* put into the runtime partition and a trim pass follows (the put is pending,
\* or done with the trim pending or done, never given up).
C9_SwrOneFetchServedStored ==
  \A r \in Slots :
    IsSwr(r) =>
      /\ req[r].pc # "match" => req[r].fetches = 1
      /\ (req[r].pc = "done" /\ req[r].cached = NoResponse /\ req[r].outcome = "ok")
           => req[r].served = req[r].res
      /\ req[r].net = "resolved" => req[r].bg \in {"put", "keys", "delete", "done"}

\* C10: an image/font request without a cached match issues exactly one fetch, whose
\* response is returned and is put into the runtime partition, whichever of the
\* delivery to the page and the deferred clone-and-put comes first.
C10_ImgMissFetchedReturnedStored ==
  \A r \in Slots :
    (IsImg(r) /\ req[r].pc # "match" /\ req[r].cached = NoResponse) =>
      /\ req[r].fetches = 1
      /\ (req[r].pc = "done" /\ req[r].outcome = "ok") => req[r].served = req[r].res
      /\ req[r].net = "resolved" => req[r].bg \in {"put", "keys", "delete", "done"}

\* C6: a style/script request for which the cache store holds an entry is answered
\* with the cached response when caches.match resolves, with the revalidation fetch
\* still in flight, and the answer stands whatever the fetch does afterwards.
C6_SwrHitServedWithoutNetwork ==
  /\ [](\A r \in Slots :
          (IsSwr(r) /\ req[r].cached # NoResponse) =>
            (req[r].pc = "done" /\ req[r].outcome = "ok"
               /\ req[r].served = req[r].cached))
  /\ [][\A r \in Slots :
          (IsSwr(r) /\ req[r].pc = "match" /\ req'[r].pc # "match"
             /\ HasEntry(req[r].q.url)) =>
            (req'[r].pc = "done" /\ req'[r].outcome = "ok"
               /\ req'[r].served \in EntriesOf(req[r].q.url)
               /\ req'[r].net = "inflight")]_vars

\* C6 witness: served from the cache while the revalidation fetch is in flight
C6_Witness ==
  \E r \in Slots :
    /\ IsSwr(r) /\ req[r].pc = "done" /\ req[r].outcome = "ok"
    /\ req[r].cached # NoResponse /\ req[r].served = req[r].cached
    /\ req[r].net = "inflight"

\* C8: when the fetch of a style/script request fails, a request that had a cached
\* match keeps the cached response it was answered with and does not fail, a request
\* without one ends as a failed request, and no partition is modified.
C8_SwrNetworkFailure ==
  /\ [](\A r \in Slots :
          (IsSwr(r) /\ req[r].net = "rejected") =>
            /\ req[r].pc = "done"
            /\ req[r].bg = "none"
            /\ req[r].cached # NoResponse =>
                 (req[r].outcome = "ok" /\ req[r].served = req[r].cached)
            /\ req[r].cached = NoResponse =>
                 (req[r].outcome = "failed" /\ req[r].served = NoResponse))
  /\ [][\A r \in Slots :
          /\ (IsSwr(r) /\ req[r].net = "inflight" /\ req'[r].net = "rejected") =>
               (cacheNames' = cacheNames /\ store' = store)
          /\ (IsSwr(r) /\ req[r].pc = "match" /\ req'[r].pc # "match") =>
               (req'[r].cached # NoResponse <=> HasEntry(req[r].q.url))]_vars

\* C8 witness: one failed revalidation behind a cached answer, and one failed request
\* without a cached match
C8_Witness ==
  \E r, s \in Slots :
    /\ IsSwr(r) /\ req[r].net = "rejected" /\ req[r].cached # NoResponse
    /\ req[r].outcome = "ok"
    /\ IsSwr(s) /\ req[s].net = "rejected" /\ req[s].cached = NoResponse
    /\ req[s].outcome = "failed"

\* C2: a document request without a preload response whose fetch resolves before
\* the timer is answered with the response the network produced, and a copy of it
\* eventually is the runtime partition's entry for the request.
C2_NetworkFirstServedAndStored ==
  /\ [](\A r \in Slots :
          (IsDoc(r) /\ req[r].net = "resolved" /\ req[r].timer = "cleared") =>
            (req[r].pc = "done" /\ req[r].outcome = "ok"
               /\ req[r].served = req[r].res /\ req[r].bg \in {"put", "done"}))
  /\ [][\A r \in Slots :
          (IsDoc(r) /\ req[r].pc = "net" /\ req'[r].net = "resolved") =>
            (latest'[req[r].q.url] = latest[req[r].q.url] + 1
               /\ req'[r].served = [url |-> req[r].q.url, ver |-> latest'[req[r].q.url]])]_vars
  /\ \A r \in Slots :
       (IsDoc(r) /\ req[r].timer = "cleared" /\ req[r].bg = "put")
         ~> (IsDoc(r) /\ req[r].bg = "done"
               /\ CacheMatch(Runtime, req[r].q.url) = req[r].served)

\* C2 witness: the network's response was served and its copy is in the runtime
\* partition
C2_Witness ==
  \E r \in Slots :
    /\ IsDoc(r) /\ req[r].timer = "cleared" /\ req[r].bg = "done"
    /\ req[r].outcome = "ok" /\ req[r].served.ver = latest[req[r].q.url]
    /\ CacheMatch(Runtime, req[r].q.url) = req[r].served

\* the response most recently stored for URL u among those the cache store holds:
\* every runtime write is later than the install that seeded the core partition
LastCached(u) ==
  IF CacheMatch(Runtime, u) # NoResponse THEN CacheMatch(Runtime, u)
  ELSE CacheMatch(Core, u)

\* C3: a document request whose fetch exceeds the timeout is answered with the
\* response most recently stored for its URL, also for a URL that is a core asset.
C3_TimeoutServesLastCached ==
  [][\A r \in Slots :
       (IsDoc(r) /\ req[r].pc = "match" /\ req[r].timer = "fired"
          /\ req[r].net # "rejected" /\ req'[r].pc = "done") =>
         req'[r].served = LastCached(req[r].q.url)]_vars

\* C4: a document request reaches the fallback only without a preload response and
\* after its fetch failed or the timer fired, and then it does; the fallback serves
\* a cached entry of the request when the cache store holds one, and otherwise the
\* cached entry of /index.html.
C4_DocFallbackOrder ==
  /\ [](\A r \in Slots :
          (IsDoc(r) /\ req[r].pc \in {"match", "index"}) =>
            (req[r].fetches = 1 /\ (req[r].net = "rejected" \/ req[r].timer = "fired")))
  /\ [][\A r \in Slots :
          /\ (IsDoc(r) /\ req[r].pc = "net"
                /\ (req'[r].net = "rejected" \/ req'[r].timer = "fired")) =>
               req'[r].pc = "match"
          /\ (IsDoc(r) /\ req[r].pc = "match" /\ req'[r].pc # "match") =>
               IF HasEntry(req[r].q.url)
               THEN /\ req'[r].pc = "done" /\ req'[r].outcome = "ok"
                    /\ req'[r].served \in EntriesOf(req[r].q.url)
               ELSE req'[r].pc = "index"
          /\ (IsDoc(r) /\ req[r].pc = "index" /\ req'[r].pc # "index"
                /\ HasEntry("/index.html")) =>
               (req'[r].pc = "done" /\ req'[r].outcome = "ok"
                  /\ req'[r].served \in EntriesOf("/index.html"))]_vars

\* C4 witness: one request answered with its own cached entry after the timer fired,
\* another, with no entry, answered with the entry of /index.html after its fetch
\* failed
C4_Witness ==
  \E r, s \in Slots :
    /\ IsDoc(r) /\ req[r].pc = "done" /\ req[r].timer = "fired"
    /\ req[r].net = "inflight" /\ req[r].served.url = req[r].q.url
    /\ IsDoc(s) /\ req[s].pc = "done" /\ req[s].net = "rejected"
    /\ req[s].q.url # "/index.html" /\ req[s].served.url = "/index.html"

\* every style/script request in flight for URL u had a cached match and its
\* revalidation fetch and background write have completed
SwrQuiet(u) ==
  \A s \in Slots :
    (IsSwr(s) /\ req[s].q.url = u) =>
      (req[s].cached # NoResponse /\ req[s].net = "resolved" /\ req[s].bg = "done")

\* C7 as claimed: once the revalidations of a URL have settled, the runtime entry
\* of the URL is the network's latest response for it.
C7_RuntimeHasLatest ==
  \A r \in Slots :
    (IsSwr(r) /\ SwrQuiet(req[r].q.url)) =>
      CacheMatch(Runtime, req[r].q.url)
        = [url |-> req[r].q.url, ver |-> latest[req[r].q.url]]

\* C7 as amended: once the revalidations of a URL have settled, the runtime entry
\* of the URL, unless a trim pass has evicted it, is the response written by the
\* put that completed last, one of the responses the network produced for the URL.
C7_RuntimeHasLastPut ==
  \A r \in Slots :
    (IsSwr(r) /\ SwrQuiet(req[r].q.url)) =>
      LET e == CacheMatch(Runtime, req[r].q.url) IN
        e = NoResponse
          \/ (e.ver = lastPut[req[r].q.url] /\ e.ver \in 1..latest[req[r].q.url])

\* C7 witness: two revalidations of one URL have settled, their puts completed in
\* the other order than their responses were produced, and the runtime entry is the
\* older response
C7_Witness ==
  \E r, s \in Slots :
    /\ r # s /\ IsSwr(r) /\ IsSwr(s) /\ req[r].q.url = req[s].q.url
    /\ SwrQuiet(req[r].q.url)
    /\ req[r].res.ver < req[s].res.ver
    /\ CacheMatch(Runtime, req[r].q.url) = req[r].res
    /\ lastPut[req[r].q.url] = req[r].res.ver

\* C20: the entries a trim pass deletes are the oldest-inserted ones of the runtime
\* partition as it is when they are deleted, and the most recently inserted entry
\* stays, also when a put has come between the pass reading the keys and deleting.
C20_TrimDeletesOldest ==
  [][\A r \in Slots :
       (req[r].bg = "delete" /\ req'[r].bg = "done") =>
         /\ Len(Runtime') <= Len(Runtime)
         /\ Runtime' = SubSeq(Runtime, Len(Runtime) - Len(Runtime') + 1, Len(Runtime))
         /\ Runtime[Len(Runtime)] \in Range(Runtime')]_vars

\* C11: an image/font request for which the cache store holds an entry is answered
\* with the cached response when caches.match resolves, with its one re-fetch still
\* in flight; a re-fetch that fails changes no partition and leaves the answer
\* standing with nothing left to write; a re-fetch that succeeds has its response
\* put, and once put that response is the runtime partition's entry for the request.
C11_ImgHitRevalidates ==
  /\ [](\A r \in Slots :
          (IsImg(r) /\ req[r].cached # NoResponse) =>
            /\ req[r].pc = "done" /\ req[r].outcome = "ok"
            /\ req[r].served = req[r].cached
            /\ req[r].fetches = 1
            /\ req[r].net = "rejected" => req[r].bg = "none"
            /\ req[r].net = "resolved" => req[r].bg \in {"put", "done"})
  /\ [][\A r \in Slots :
          /\ (IsImg(r) /\ req[r].pc = "match" /\ req'[r].pc # "match"
                /\ HasEntry(req[r].q.url)) =>
               (req'[r].pc = "done" /\ req'[r].outcome = "ok"
                  /\ req'[r].served \in EntriesOf(req[r].q.url)
                  /\ req'[r].net = "inflight" /\ req'[r].fetches = 1)
          /\ (IsImg(r) /\ req[r].cached # NoResponse /\ req[r].net = "inflight"
                /\ req'[r].net = "rejected") =>
               (cacheNames' = cacheNames /\ store' = store)
          /\ (IsImg(r) /\ req[r].cached # NoResponse /\ req[r].bg = "put"
                /\ req'[r].bg # "put") =>
               (RUNTIME_CACHE \in Range(cacheNames')
                  /\ CacheMatch(store'[RUNTIME_CACHE], req[r].q.url) = req[r].res)]_vars
  /\ \A r \in Slots :
       (IsImg(r) /\ req[r].cached # NoResponse /\ req[r].net = "resolved")
         ~> (IsImg(r) /\ req[r].cached # NoResponse /\ req[r].bg = "done")

\* C11 witness: one request answered from the cache whose re-fetch has replaced the
\* runtime entry, another answered from the cache whose re-fetch failed
C11_Witness ==
  \E r, s \in Slots :
    /\ IsImg(r) /\ req[r].cached # NoResponse /\ req[r].served = req[r].cached
    /\ req[r].net = "resolved" /\ req[r].bg = "done"
    /\ CacheMatch(Runtime, req[r].q.url) = req[r].res
    /\ req[r].res # req[r].cached
    /\ IsImg(s) /\ req[s].cached # NoResponse /\ req[s].net = "rejected"
    /\ req[s].outcome = "ok" /\ req[s].served = req[s].cached

\* C12: for a request that is not a GET or goes to another origin the listener
\* returns without respondWith: no strategy runs, no fetch is issued, no partition is
\* looked up, and the step that takes the event leaves the cache store as it is.
C12_NotIntercepted ==
  /\ [](\A r \in Slots :
          (req[r].q # NoRequest
             /\ (req[r].q.method # "GET" \/ req[r].q.origin # Origin)) =>
            /\ req[r].pc = "pass" /\ req[r].responds = 0
            /\ req[r].fetches = 0 /\ req[r].net = "none" /\ req[r].timer = "off"
            /\ req[r].cached = NoResponse /\ req[r].served = NoResponse
            /\ req[r].bg = "none" /\ req[r].outcome = "none")
  /\ [][\A r \in Slots :
          (req'[r].q # NoRequest
             /\ (req'[r].q.method # "GET" \/ req'[r].q.origin # Origin)
             /\ req'[r] # req[r]) =>
            (cacheNames' = cacheNames /\ store' = store)]_vars

\* C12 witness: a POST to the site and a GET to another origin have both been let
\* through
C12_Witness ==
  \E r, s \in Slots :
    /\ req[r].q.method = "POST" /\ req[r].q.origin = Origin /\ req[r].pc = "pass"
    /\ req[s].q.method = "GET" /\ req[s].q.origin # Origin /\ req[s].pc = "pass"

\* the request is a navigation or asks for a document
AsksDocument(q) == q.mode = "navigate" \/ q.dest = "document"

\* C13: every same-origin GET is handled by the strategy its mode and destination
\* name (document: network-first; style/script: stale-while-revalidate; image/font:
\* cache-first with revalidation; anything else: cache-first with network fallback),
\* only the steps of that strategy run for it, respondWith is called once, and its
\* one outcome (a response or a failure), once produced, does not change.
C13_OneStrategyOneResponse ==
  /\ [](\A r \in Slots :
          (req[r].q.method = "GET" /\ req[r].q.origin = Origin) =>
            /\ req[r].responds = 1
            /\ AsksDocument(req[r].q) => Strategy(req[r].q) = "document"
            /\ (~AsksDocument(req[r].q) /\ req[r].q.dest \in {"style", "script"})
                 => Strategy(req[r].q) = "swr"
            /\ (~AsksDocument(req[r].q) /\ req[r].q.dest \in {"image", "font"})
                 => Strategy(req[r].q) = "img"
            /\ (~AsksDocument(req[r].q)
                  /\ req[r].q.dest \notin {"style", "script", "image", "font"})
                 => Strategy(req[r].q) = "default"
            /\ (req[r].pc \in {"preload", "net", "index"} \/ req[r].timer # "off")
                 => AsksDocument(req[r].q)
            /\ req[r].bg \in {"keys", "delete"}
                 => req[r].q.dest \in {"style", "script", "image", "font"}
            /\ req[r].outcome = "none" <=> req[r].pc # "done"
            /\ req[r].outcome = "ok" <=> req[r].served # NoResponse)
  /\ [][\A r \in Slots :
          (req[r].outcome # "none" /\ req'[r] # Idle) =>
            (req'[r].outcome = req[r].outcome /\ req'[r].served = req[r].served
               /\ req'[r].responds = 1)]_vars

\* C13 witness: a font request and a request of no listed destination have each got
\* their one response
C13_Witness ==
  \E r, s \in Slots :
    /\ req[r].q.dest = "font" /\ req[r].pc = "done" /\ req[r].responds = 1
    /\ req[r].outcome = "ok"
    /\ req[s].q.dest = "" /\ req[s].q.method = "GET" /\ req[s].pc = "done"
    /\ req[s].responds = 1 /\ req[s].outcome = "ok"

CoreUrls == { Core[i].url : i \in 1..Len(Core) }

\* the install has succeeded
InstallSucceeded == phase \in {"seeded", "installed", "activating", "purged", "activated"}

\* C15: the core partition never holds a non-empty proper subset of CORE_ASSETS, and
\* once the install has succeeded the core partition exists and holds exactly one
\* entry for each listed asset.
C15_InstallAllOrNothing ==
  /\ CoreUrls \in { {}, Range(CORE_ASSETS) }
  /\ InstallSucceeded =>
       /\ CORE_CACHE \in Range(cacheNames)
       /\ CoreUrls = Range(CORE_ASSETS)
       /\ Len(Core) = Len(CORE_ASSETS)

\* C15 witness: an install into an empty cache store has succeeded and the core
\* partition, the only one, holds the listed assets
C15_Witness ==
  /\ phase = "seeded" /\ cacheNames = << CORE_CACHE >>
  /\ CoreUrls = Range(CORE_ASSETS)

\* C16: after an install attempt that failed on a core asset the cache store holds no
\* core partition of this version.
C16_NoCoreAfterFailedInstall ==
  phase = "redundant" => CORE_CACHE \notin Range(cacheNames)

\* partition n is the same before and after the step: there or not, with the same
\* entries
SamePartition(n) ==
  /\ n \in Range(cacheNames') <=> n \in Range(cacheNames)
  /\ store'[n] = store[n]

\* C17: a failed install signals no skipWaiting, never reaches activation and
\* handles no fetch event; the install steps up to the failure leave every
\* partition of another generation as it was and store nothing; skipWaiting is
\* signalled only with every core asset stored.
C17_FailedInstallStops ==
  /\ [](phase = "redundant" =>
          /\ ~skipWaiting /\ ~claimed /\ ~preload
          /\ events = 0 /\ \A r \in Slots : req[r] = Idle)
  /\ [](skipWaiting =>
          /\ phase \in {"installed", "activating", "purged", "activated"}
          /\ \A i \in 1..Len(CORE_ASSETS) : CacheMatch(Core, CORE_ASSETS[i]) # NoResponse)
  /\ [][/\ phase = "redundant" => phase' = "redundant"
        /\ phase' = "redundant" =>
             (phase \in {"installing", "redundant"} /\ store' = store
                /\ cacheNames' = cacheNames)
        /\ phase' = "installing" =>
             \A n \in CacheNames \ {CORE_CACHE} : SamePartition(n)]_vars

\* C17 witness: the install failed beside a prior generation's partitions, which are
\* still there with their entries
C17_Witness ==
  /\ phase = "redundant" /\ ~skipWaiting
  /\ \A n \in Range(PriorCaches) : n \in Range(cacheNames) /\ store[n] # << >>

\* C18: once activation has purged, the cache store holds no partition other than
\* CORE_CACHE and RUNTIME_CACHE, and the purge leaves these two as they were: there
\* or not, with the same entries in the same order.
C18_ActivationPurges ==
  /\ [](phase \in {"purged", "activated"} =>
          /\ Range(cacheNames) \subseteq {CORE_CACHE, RUNTIME_CACHE}
          /\ \A n \in Range(PriorCaches) : store[n] = << >>)
  /\ [][(phase = "activating" /\ phase' = "purged") =>
          /\ SamePartition(CORE_CACHE)
          /\ SamePartition(RUNTIME_CACHE)
          /\ cacheNames' = SelectSeq(cacheNames,
                                     LAMBDA k : k = CORE_CACHE \/ k = RUNTIME_CACHE)]_vars

\* C18 witness: activation has purged a cache store that held this generation's full
\* runtime partition, which is still there
C18_Witness ==
  /\ phase = "purged"
  /\ cacheNames = << CORE_CACHE, RUNTIME_CACHE >>
  /\ Runtime = Warm /\ CoreUrls = Range(CORE_ASSETS)

\* C19: from the successful install on, the cache store holds exactly one core
\* partition and exactly one runtime partition.
C19_OneCoreOneRuntime ==
  InstallSucceeded =>
    /\ Cardinality(Range(cacheNames) \cap {CORE_CACHE, PriorCaches[1]}) = 1
    /\ Cardinality(Range(cacheNames) \cap {RUNTIME_CACHE, PriorCaches[2]}) = 1

\* C21: no step of the activated worker (a strategy, a background put, a trim pass)
\* changes the core partition, which holds the assets of CORE_ASSETS as the install
\* stored them, in the order of the list.
C21_CoreUntouched ==
  /\ [](phase = "activated" =>
          (CORE_CACHE \in Range(cacheNames) /\ Core = Seeded))
  /\ [][phase = "activated" =>
          (store'[CORE_CACHE] = store[CORE_CACHE] /\ Head(cacheNames') = CORE_CACHE)]_vars

\* C21 witness: a style/script revalidation has put into the full runtime partition
\* and its trim pass has evicted the oldest entry, with the core partition as seeded
C21_Witness ==
  \E r \in Slots :
    /\ IsSwr(r) /\ req[r].bg = "done" /\ req[r].net = "resolved"
    /\ Len(Runtime) = MAX_RUNTIME_ENTRIES
    /\ CacheMatch(Runtime, Warm[1].url) = NoResponse
    /\ CacheMatch(Runtime, req[r].q.url) = req[r].res
    /\ Core = Seeded

\* C22: the response path does not wait for the bookkeeping: the step that starts a
\* put either answers the request or hands the response over for delivery, and the
\* delivery can happen whatever the state of the put and the trim pass; no step of a
\* put or a trim pass, failing or not, changes what the request was or will be
\* answered with; a request whose put failed has been answered successfully.
C22_BookkeepingOffResponsePath ==
  /\ [](\A r \in Slots :
          /\ req[r].pc = "deliver" => ENABLED Deliver(r)
          /\ req[r].bg = "failed" => (req[r].pc = "done" /\ req[r].outcome = "ok")
          /\ (req[r].bg # "none" /\ req[r].pc = "done") => req[r].outcome = "ok")
  /\ [][\A r \in Slots :
          /\ (req[r].bg = "none" /\ req'[r].bg = "put") =>
               \/ req'[r].pc = "done" /\ req'[r].outcome = "ok"
               \/ req'[r].pc = "deliver"
          /\ (req[r].bg # "none" /\ req'[r].bg # req[r].bg /\ req'[r] # Idle) =>
               /\ req'[r].pc = req[r].pc
               /\ req'[r].outcome = req[r].outcome
               /\ req'[r].served = req[r].served
               /\ req'[r].res = req[r].res]_vars

\* C22 witness: one request answered with its put still to come, another answered
\* whose put has failed
C22_Witness ==
  \E r, s \in Slots :
    /\ req[r].pc = "done" /\ req[r].outcome = "ok" /\ req[r].bg = "put"
    /\ req[r].served = req[r].res
    /\ req[s].pc = "done" /\ req[s].outcome = "ok" /\ req[s].bg = "failed"
    /\ req[s].served = req[s].res

\* the last k entries of s, in order
LastEntries(s, k) == SubSeq(s, Len(s) - k + 1, Len(s))

\* C23: a trim pass reading n keys picks nothing when n <= MAX_RUNTIME_ENTRIES and
\* the first n - MAX_RUNTIME_ENTRIES keys otherwise; deleting them from the
\* partition as it was read (no write in between) leaves the MAX_RUNTIME_ENTRIES
\* most recently inserted entries in unchanged order.
C23_TrimExact ==
  [][\A r \in Slots :
       LET n == Len(Runtime) IN
         /\ (req[r].bg = "keys" /\ req'[r].bg # "keys") =>
              /\ store' = store
              /\ n <= MAX_RUNTIME_ENTRIES =>
                   (req'[r].toDelete = << >> /\ req'[r].bg = "done")
              /\ n > MAX_RUNTIME_ENTRIES =>
                   /\ req'[r].bg = "delete"
                   /\ req'[r].toDelete
                        = SubSeq(CacheKeys(Runtime), 1, n - MAX_RUNTIME_ENTRIES)
         /\ (req[r].bg = "delete" /\ req'[r].bg = "done"
               /\ req[r].toDelete = TrimTargets(CacheKeys(Runtime), MAX_RUNTIME_ENTRIES)) =>
              /\ n > MAX_RUNTIME_ENTRIES
              /\ Len(store'[RUNTIME_CACHE]) = MAX_RUNTIME_ENTRIES
              /\ store'[RUNTIME_CACHE] = LastEntries(Runtime, MAX_RUNTIME_ENTRIES)]_vars

\* C23 witness: a trim pass has taken the oldest entry from the runtime partition of
\* 121 keys and left the 120 newer ones, the last being the response just put
C23_Witness ==
  \E r \in Slots :
    /\ req[r].bg = "done" /\ TrimFollows(r) /\ req[r].net = "resolved"
    /\ Runtime = Append(Tail(Warm), req[r].res)

\* C24: when the put of a response into the runtime partition has been carried out
\* (of a document response, of a style/script revalidation, of an image/font miss
\* or of an image/font background revalidation), a trim pass is started next for it.
C24_PutThenTrim ==
  [][\A r \in Slots :
       (req[r].bg = "put" /\ req'[r].bg \notin {"put", "failed"}) =>
         req'[r].bg = "keys"]_vars

\* the document request is waiting for a response from the network: the
\* navigation-preload response of its event, or the fetch of fromNetwork
DocAwaitsNetwork(r) ==
  /\ IsDoc(r)
  /\ \/ req[r].pc = "net"
     \/ req[r].pc = "preload" /\ preload /\ req[r].q.mode = "navigate"

\* C25: whenever a document request waits for the network, on the preload path as on
\* the fetch path, the timer that bounds the wait is running, so a response that
\* never arrives is answered from the cache store when the timer fires.
C25_DocWaitBounded ==
  \A r \in Slots : DocAwaitsNetwork(r) => req[r].timer = "armed"

\* the fetch of fromNetwork answered after the timer had fired
LateResponse(r) == IsDoc(r) /\ req[r].timer = "fired" /\ req[r].net = "resolved"

\* C26: a response that arrives after the timer fired is not served to any request
\* and is not put into the runtime partition, and its arrival changes neither the
\* request's course nor the cache store; a fetch that answered first has cleared the
\* timer for good and its response is the answer; a timer that fires after the fetch
\* failed changes nothing but itself.
C26_FirstSettles ==
  /\ [](\A r \in Slots :
          /\ LateResponse(r) =>
               /\ req[r].bg = "none"
               /\ \A s \in Slots : req[s].served # req[r].res
               /\ req[r].res \notin Range(Runtime)
          /\ req[r].timer = "cleared" =>
               (req[r].net = "resolved" /\ req[r].pc = "done"
                  /\ req[r].outcome = "ok" /\ req[r].served = req[r].res))
  /\ [][\A r \in Slots :
          /\ (req[r].timer = "fired" /\ req[r].net = "inflight"
                /\ req'[r].net # "inflight") =>
               /\ req'[r].pc = req[r].pc /\ req'[r].served = req[r].served
               /\ req'[r].outcome = req[r].outcome /\ req'[r].bg = req[r].bg
               /\ store' = store /\ cacheNames' = cacheNames
          /\ (req[r].timer = "cleared" /\ req'[r] # Idle) => req'[r].timer = "cleared"
          /\ (req[r].timer = "armed" /\ req'[r].timer = "fired") =>
               /\ req[r].net = "inflight" => (req[r].pc = "net" /\ req'[r].pc = "match")
               /\ req[r].net # "inflight" => req'[r].pc = req[r].pc]_vars

\* C26 witness: one request answered from the cache store after its timer fired,
\* whose response then arrived, and another whose fetch answered first
C26_Witness ==
  \E r, s \in Slots :
    /\ LateResponse(r) /\ req[r].pc = "done" /\ req[r].outcome = "ok"
    /\ req[r].served # req[r].res
    /\ IsDoc(s) /\ req[s].timer = "cleared" /\ req[s].served = req[s].res

\* the document request was answered with the preload response of its event
ServedPreload(r) ==
  IsDoc(r) /\ req[r].pc = "done" /\ req[r].outcome = "ok" /\ req[r].fetches = 0

\* C27: a document request whose event brings a preload response is answered with
\* it in the step of its arrival, with no fetch issued and no timer started and its
\* put still to come; the copy eventually is the runtime partition's entry for the
\* request.
C27_PreloadServedAndStored ==
  /\ [](\A r \in Slots :
          ServedPreload(r) =>
            /\ req[r].served = req[r].res /\ req[r].served.url = req[r].q.url
            /\ req[r].net = "none" /\ req[r].timer = "off"
            /\ req[r].bg \in {"put", "done"})
  /\ [][\A r \in Slots :
          (DocAwaitsNetwork(r) /\ req[r].pc = "preload" /\ req'[r].pc = "done"
             /\ req'[r].outcome = "ok") =>
            /\ latest'[req[r].q.url] = latest[req[r].q.url] + 1
            /\ req'[r].served = [url |-> req[r].q.url, ver |-> latest'[req[r].q.url]]
            /\ req'[r].bg = "put" /\ store' = store]_vars
  /\ \A r \in Slots :
       (ServedPreload(r) /\ req[r].bg = "put")
         ~> (ServedPreload(r) /\ req[r].bg = "done"
               /\ CacheMatch(Runtime, req[r].q.url) = req[r].served)

\* C27 witness: a navigation answered with its preload response, no fetch and no
\* timer, and the copy is the runtime entry
C27_Witness ==
  \E r \in Slots :
    /\ ServedPreload(r) /\ req[r].timer = "off" /\ req[r].bg = "done"
    /\ req[r].served.ver = latest[req[r].q.url]
    /\ CacheMatch(Runtime, req[r].q.url) = req[r].served

\* C28: whatever enabling navigation preload does, the activation goes on: from the
\* installed worker it reaches the purge and then the claim and nothing else, each
\* of them can be taken when its turn has come, and clients are claimed only with
\* every stale partition deleted.
C28_ActivationSurvivesPreload ==
  /\ [](/\ phase = "activating" => ENABLED ActivatePurge
        /\ phase = "purged" => ENABLED ActivateClaim
        /\ claimed =>
             (phase = "activated"
                /\ Range(cacheNames) \subseteq {CORE_CACHE, RUNTIME_CACHE}))
  /\ [][/\ (phase = "installed" /\ phase' # phase) => phase' = "activating"
        /\ (phase = "activating" /\ phase' # phase) => phase' = "purged"
        /\ (phase = "purged" /\ phase' # phase) => phase' = "activated"
        /\ claimed' # claimed =>
             (phase = "purged" /\ cacheNames' = cacheNames /\ store' = store
                /\ Range(cacheNames) \subseteq {CORE_CACHE, RUNTIME_CACHE})]_vars

\* C28 witness: activation has completed, clients claimed, with navigation preload
\* not enabled
C28_Witness ==
  /\ phase = "activated" /\ claimed /\ ~preload
  /\ Range(cacheNames) \subseteq {CORE_CACHE, RUNTIME_CACHE}
  /\ events = 0

\* the positions of the runtime partition that hold an entry for URL u
RuntimeSlotsOf(u) == { i \in 1..Len(Runtime) : Runtime[i].url = u }

\* the request's response has been put into the runtime partition and nothing of its
\* bookkeeping is left
PutSettled(r) ==
  /\ Intercepted(req[r].q) /\ req[r].res # NoResponse
  /\ req[r].bg = "done"

\* C29: when two requests in flight for one URL have both put their responses and
\* settled, the runtime partition holds one entry for the URL, the response of the
\* put carried out last, which is one of the two; a put adds one key when the URL
\* had none in the partition and no key when it had one.
C29_LastWriteWins ==
  /\ [](\A r, s \in Slots :
          (r # s /\ req[r].q.url = req[s].q.url /\ PutSettled(r) /\ PutSettled(s)) =>
            /\ Cardinality(RuntimeSlotsOf(req[r].q.url)) = 1
            /\ CacheMatch(Runtime, req[r].q.url) \in {req[r].res, req[s].res}
            /\ CacheMatch(Runtime, req[r].q.url).ver = lastPut[req[r].q.url])
  /\ [][\A r \in Slots :
          (req[r].bg = "put" /\ req'[r].bg \notin {"put", "failed"}) =>
            /\ lastPut'[req[r].q.url] = req[r].res.ver
            /\ store'[RUNTIME_CACHE][Len(store'[RUNTIME_CACHE])] = req[r].res
            /\ Len(store'[RUNTIME_CACHE])
                 = Len(Runtime) + (IF RuntimeSlotsOf(req[r].q.url) = {} THEN 1 ELSE 0)]_vars

\* C29 witness: two requests for one URL got different responses, both were put,
\* and the entry is the one produced first, its put having come last
C29_Witness ==
  \E r, s \in Slots :
    /\ r # s /\ req[r].q.url = req[s].q.url /\ PutSettled(r) /\ PutSettled(s)
    /\ IsImg(r) /\ IsImg(s)
    /\ req[r].res.ver < req[s].res.ver
    /\ CacheMatch(Runtime, req[r].q.url) = req[r].res
    /\ Cardinality(RuntimeSlotsOf(req[r].q.url)) = 1

\* C30: a style/script or image/font request for a URL of which the runtime
\* partition holds a response stored by a revalidation is answered with that
\* response, also when the core partition holds a copy of the URL from the install.
C30_RevalidatedCopyServed ==
  [][\A r \in Slots :
       ((IsSwr(r) \/ IsImg(r)) /\ req[r].pc = "match" /\ req'[r].pc # "match"
          /\ RUNTIME_CACHE \in Range(cacheNames)
          /\ CacheMatch(Runtime, req[r].q.url) # NoResponse) =>
         req'[r].served = CacheMatch(Runtime, req[r].q.url)]_vars
====
